---- MODULE Spec2Model ----
(***************************************************************************)
(* The request handlers of the Solana helper server (src/src/handlers.rs)  *)
(* with the response envelope and request types of src/src/dtos.rs.        *)
(*                                                                         *)
(* One HTTP exchange is outstanding at a time.  A handler action takes a   *)
(* JSON body, runs the Json<T> extractor and then the whole handler, and   *)
(* leaves the response in flight; Deliver hands the response to the client *)
(* that keeps the last generated keypair and the last signature it got.    *)
(* The server itself keeps no state between exchanges.                     *)
(*                                                                         *)
(* Byte buffers are sequences of 32-byte blocks, so a public key is one    *)
(* block and a keypair or a signature is two.  A string is plain text, or  *)
(* the base58 or base64 text of a byte buffer.                             *)
(***************************************************************************)
EXTENDS Integers, Sequences, FiniteSets, TLC

VARIABLES op, request, status, kind, response, steps, client

vars == <<op, request, status, kind, response, steps, client>>

-----------------------------------------------------------------------------
(* Bounds *)

\* Keypair::new() draws one of this many distinct keypairs.
NumKeys == 2

\* Amounts and lamports of a body range over -1 .. MaxAmount.
MaxAmount == 2

-----------------------------------------------------------------------------
(* Option<T>: None is the empty sequence, Some(v) the one-element one. *)

None == <<>>

Some(v) == <<v>>

is_none(o) == Len(o) = 0

is_some(o) == Len(o) = 1

-----------------------------------------------------------------------------
(* Strings and byte buffers *)

EmptyString == [enc |-> "utf8", text |-> "", bytes |-> <<>>]

Text(t) == [enc |-> "utf8", text |-> t, bytes |-> <<>>]

is_empty(s) == s.enc = "utf8" /\ s.text = ""

\* One 32-byte block: its role t, the key indices k and j it was made from
\* and the message m it covers (EmptyString when it covers none).
Block(t, k, j, m) == [t |-> t, k |-> k, j |-> j, m |-> m]

SeedBlock(i) == Block("seed", i, 0, EmptyString)

PubBlock(i) == Block("pub", i, 0, EmptyString)

\* bs58::encode(bytes).into_string(): the empty buffer encodes to "".
bs58_encode(bytes) ==
    IF bytes = <<>> THEN EmptyString
    ELSE [enc |-> "b58", text |-> "", bytes |-> bytes]

\* bs58::decode(s): fails on a string that is not base58 text.
bs58_decode(s) ==
    IF s.enc = "b58" THEN [ok |-> TRUE, bytes |-> s.bytes]
    ELSE IF is_empty(s) THEN [ok |-> TRUE, bytes |-> <<>>]
    ELSE [ok |-> FALSE, bytes |-> <<>>]

\* general_purpose::STANDARD.encode(bytes)
base64_encode(bytes) ==
    IF bytes = <<>> THEN EmptyString
    ELSE [enc |-> "b64", text |-> "", bytes |-> bytes]

\* general_purpose::STANDARD.decode(s): fails on a string that is not
\* standard base64 text.
base64_decode(s) ==
    IF s.enc = "b64" THEN [ok |-> TRUE, bytes |-> s.bytes]
    ELSE IF is_empty(s) THEN [ok |-> TRUE, bytes |-> <<>>]
    ELSE [ok |-> FALSE, bytes |-> <<>>]

\* str::as_bytes(): the bytes of the text exactly as supplied.
as_bytes(s) == s

-----------------------------------------------------------------------------
(* Keys and signatures (solana_sdk) *)

\* Keypair::new(): the i-th keypair, a secret seed with its public key.
Keypair_new(i) == [secret |-> SeedBlock(i), public |-> PubBlock(i)]

\* Keypair::to_bytes(): the 64 bytes secret ++ public.
Keypair_to_bytes(kp) == <<kp.secret, kp.public>>

\* Keypair::pubkey()
Keypair_pubkey(kp) == kp.public

\* Pubkey::to_string(): base58 of the 32 bytes.
Pubkey_to_string(pk) == bs58_encode(<<pk>>)

\* The key index a secret block signs for; 0 is a key outside 1..NumKeys.
SignerOf(sec) == IF sec.t = "seed" THEN sec.k ELSE 0

\* Keypair::sign_message(bytes): R is made from the secret and the message,
\* S from the secret, the stored public key and the message.
Keypair_sign_message(kp, msg) ==
    << Block("R", SignerOf(kp.secret), 0, msg),
       Block("S", SignerOf(kp.secret), kp.public.k, msg) >>

\* Signature::try_from(&[u8]): exactly 64 bytes.
Signature_try_from(bytes) ==
    IF Len(bytes) = 2 THEN [ok |-> TRUE, val |-> bytes]
    ELSE [ok |-> FALSE, val |-> <<>>]

\* Signature::verify(pubkey_bytes, message_bytes)
Signature_verify(sig, pk, msg) ==
    /\ pk.t = "pub" /\ pk.k >= 1
    /\ sig[1].t = "R" /\ sig[2].t = "S"
    /\ sig[1].k = pk.k /\ sig[2].k = pk.k /\ sig[2].j = pk.k
    /\ sig[1].m = msg /\ sig[2].m = msg

-----------------------------------------------------------------------------
(* crate::helper *)

ErrInvalidPublicKey == "InvalidPublicKey"

ErrInvalidSecretKey == "InvalidSecretKey"

\* parse_pubkey(s): a base58 string of exactly 32 bytes.
parse_pubkey(s) ==
    LET d == bs58_decode(s) IN
    IF d.ok /\ Len(d.bytes) = 1
    THEN [ok |-> TRUE, val |-> d.bytes[1], err |-> ""]
    ELSE [ok |-> FALSE, val |-> PubBlock(0), err |-> ErrInvalidPublicKey]

\* keypair_from_base58(s): a base58 string of exactly 64 bytes.
keypair_from_base58(s) ==
    LET d == bs58_decode(s) IN
    IF d.ok /\ Len(d.bytes) = 2
    THEN [ok |-> TRUE,
          val |-> [secret |-> d.bytes[1], public |-> d.bytes[2]],
          err |-> ""]
    ELSE [ok |-> FALSE, val |-> Keypair_new(0), err |-> ErrInvalidSecretKey]

-----------------------------------------------------------------------------
(* dtos.rs: the response envelope *)

ApiResponse_success(data) ==
    [success |-> TRUE, data |-> Some(data), error |-> None]

ApiResponse_error_data_kept(message) ==
    [success |-> FALSE, data |-> Some(message), error |-> Some(message)]

ApiResponse_error(message) ==
    [success |-> FALSE, data |-> None, error |-> Some(message)]

-----------------------------------------------------------------------------
(* The steps of a handler, as its trace records them: what ran, and on    *)
(* which field of the request.                                             *)

Step(what, field) == <<what, field>>

Check(field) == Step("check", field)

Parse(field) == Step("parse_pubkey", field)

Unwrap(field) == Step("unwrap", field)

Call(what) == Step(what, "")

-----------------------------------------------------------------------------
(* What an exchange ends in: the status line, the kind of body, the body   *)
(* and the steps of the handler that ran, in the order they ran.  A failed *)
(* step is the last one of its trace.                                      *)

OK == 200

BAD_REQUEST == 400

\* The status of axum's JsonRejection for a body that is JSON but does not
\* fit the target type.
UNPROCESSABLE_ENTITY == 422

MissingFields == "Missing required fields"

Reply(st, envelope, trace) ==
    [status |-> st, kind |-> "json", body |-> envelope, steps |-> trace]

\* (StatusCode::BAD_REQUEST, ResponseJson(ApiResponse::error(message)))
Bad(message, trace) == Reply(BAD_REQUEST, ApiResponse_error(message), trace)

\* (StatusCode::OK, ResponseJson(ApiResponse::success(data)))
Good(data, trace) == Reply(OK, ApiResponse_success(data), trace)

\* The Json<T> extractor refuses the body: the handler never runs and the
\* answer is the rejection's plain text.
Rejected ==
    [status |-> UNPROCESSABLE_ENTITY, kind |-> "text",
     body |-> Text("Failed to deserialize the JSON body into the target type"),
     steps |-> << Call("extract") >>]

\* Option::unwrap() on None: the handler's task panics and no response is
\* written.
Panicked(trace) ==
    [status |-> 0, kind |-> "panic", body |-> EmptyString, steps |-> trace]

-----------------------------------------------------------------------------
(* The presence tests of the handlers *)

\* match &req.f { Some(val) if !val.is_empty() => val, _ => return ... }
some_non_empty(o) == is_some(o) /\ ~is_empty(o[1])

\* req.f.as_ref().filter(|s| !s.is_empty())
filter_non_empty(o) == IF is_some(o) /\ ~is_empty(o[1]) THEN o ELSE None

filter_positive_keeps_zero(o) == IF is_some(o) /\ o[1] >= 0 THEN o ELSE None

\* req.amount.filter(|v| *v > 0)
filter_positive(o) == IF is_some(o) /\ o[1] > 0 THEN o ELSE None

some_positive_keeps_zero(o) == is_some(o) /\ o[1] >= 0

\* match req.amount { Some(val) if val > 0 => val, _ => return ... }
some_positive(o) == is_some(o) /\ o[1] > 0

-----------------------------------------------------------------------------
(* generate_keypair, sign_message, verify_message *)

generate_keypair_secret_only(i) ==
    LET keypair == Keypair_new(i) IN
    Good([pubkey |-> Pubkey_to_string(Keypair_pubkey(keypair)),
          secret |-> bs58_encode(<<keypair.secret>>)],
         << Call("Keypair::new") >>)

generate_keypair(i) ==
    LET keypair == Keypair_new(i) IN
    Good([pubkey |-> Pubkey_to_string(Keypair_pubkey(keypair)),
          secret |-> bs58_encode(Keypair_to_bytes(keypair))],
         << Call("Keypair::new") >>)

sign_message(req) ==
    IF ~some_non_empty(req.message)
    THEN Bad(MissingFields, << Check("message") >>)
    ELSE IF ~some_non_empty(req.secret)
    THEN Bad(MissingFields, << Check("message"), Check("secret") >>)
    ELSE
    LET message == req.message[1]
        secret == req.secret[1]
        kp == keypair_from_base58(secret)
        trace == << Check("message"), Check("secret"),
                  Step("keypair_from_base58", "secret") >>
    IN
    IF ~kp.ok THEN Bad(kp.err, trace)
    ELSE
    LET keypair == kp.val
        signature == Keypair_sign_message(keypair, as_bytes(message))
    IN Good([signature |-> base64_encode(signature),
             public_key |-> Pubkey_to_string(Keypair_pubkey(keypair)),
             message |-> message],
            Append(trace, Call("sign_message")))

verify_message_finish_rejects_invalid(pubkey, signature, message, pubkey_str, trace) ==
    LET valid == Signature_verify(signature, pubkey, as_bytes(message)) IN
    IF valid
    THEN Good([valid |-> valid, message |-> message, pubkey |-> pubkey_str],
              Append(trace, Call("verify")))
    ELSE Bad("Invalid signature", Append(trace, Call("verify")))

\* handlers.rs 131-140
verify_message_finish(pubkey, signature, message, pubkey_str, trace) ==
    LET valid == Signature_verify(signature, pubkey, as_bytes(message)) IN
    Good([valid |-> valid, message |-> message, pubkey |-> pubkey_str],
         Append(trace, Call("verify")))

verify_message_decode_signature_first(message, signature_str, pubkey_str, trace) ==
    LET sb == base64_decode(signature_str)
        t1 == Append(trace, Step("base64_decode", "signature"))
    IN
    IF ~sb.ok THEN Bad("Invalid base64 signature", t1)
    ELSE
    LET sg == Signature_try_from(sb.bytes)
        t2 == Append(t1, Step("Signature::try_from", "signature"))
    IN
    IF ~sg.ok THEN Bad("Invalid signature format", t2)
    ELSE
    LET pk == parse_pubkey(pubkey_str)
        t3 == Append(t2, Parse("pubkey"))
    IN
    IF ~pk.ok THEN Bad(pk.err, t3)
    ELSE verify_message_finish(pk.val, sg.val, message, pubkey_str, t3)

\* handlers.rs 101-129
verify_message_decode(message, signature_str, pubkey_str, trace) ==
    LET pk == parse_pubkey(pubkey_str)
        t1 == Append(trace, Parse("pubkey"))
    IN
    IF ~pk.ok THEN Bad(pk.err, t1)
    ELSE
    LET sb == base64_decode(signature_str)
        t2 == Append(t1, Step("base64_decode", "signature"))
    IN
    IF ~sb.ok THEN Bad("Invalid base64 signature", t2)
    ELSE
    LET sg == Signature_try_from(sb.bytes)
        t3 == Append(t2, Step("Signature::try_from", "signature"))
    IN
    IF ~sg.ok THEN Bad("Invalid signature format", t3)
    ELSE verify_message_finish(pk.val, sg.val, message, pubkey_str, t3)

verify_message(req) ==
    IF ~some_non_empty(req.message)
    THEN Bad(MissingFields, << Check("message") >>)
    ELSE IF ~some_non_empty(req.signature)
    THEN Bad(MissingFields, << Check("message"), Check("signature") >>)
    ELSE IF ~some_non_empty(req.pubkey)
    THEN Bad(MissingFields,
             << Check("message"), Check("signature"), Check("pubkey") >>)
    ELSE verify_message_decode(req.message[1], req.signature[1], req.pubkey[1],
             << Check("message"), Check("signature"), Check("pubkey") >>)

-----------------------------------------------------------------------------
(* Instructions (spl_token, solana_program, spl_associated_token_account) *)

TokenProgramId == Block("spl_token::id", 0, 0, EmptyString)

SystemProgramId == Block("system_program::id", 0, 0, EmptyString)

RentSysvarId == Block("sysvar::rent::id", 0, 0, EmptyString)

AccountMeta(pubkey, is_signer, is_writable) ==
    [pubkey |-> pubkey, is_signer |-> is_signer, is_writable |-> is_writable]

\* The payload of an instruction: its tag, its number and the key it names.
Payload(tag, n, key) == <<Block(tag, n, key.k, EmptyString) >>

\* token_instruction::initialize_mint(program, mint, authority, freeze,
\* decimals); built tells whether the library returns Ok, freeze is an
\* Option.
initialize_mint(built, mint, authority, freeze, decimals) ==
    [ok |-> built,
     val |-> [program_id |-> TokenProgramId,
              accounts |-> << AccountMeta(mint, FALSE, TRUE),
                              AccountMeta(RentSysvarId, FALSE, FALSE) >>,
              data |-> Payload("InitializeMint", decimals, authority)
                         \o [i \in 1..Len(freeze) |->
                               Block("freeze_authority", 0, freeze[i].k,
                                     EmptyString)]]]

\* token_instruction::mint_to(program, mint, account, owner, &[], amount)
mint_to(built, mint, account, owner, amount) ==
    [ok |-> built,
     val |-> [program_id |-> TokenProgramId,
              accounts |-> << AccountMeta(mint, FALSE, TRUE),
                              AccountMeta(account, FALSE, TRUE),
                              AccountMeta(owner, TRUE, FALSE) >>,
              data |-> Payload("MintTo", amount, owner)]]

\* token_instruction::transfer(program, source, destination, authority,
\* &[], amount)
token_transfer(built, source, destination, authority, amount) ==
    [ok |-> built,
     val |-> [program_id |-> TokenProgramId,
              accounts |-> << AccountMeta(source, FALSE, TRUE),
                              AccountMeta(destination, FALSE, TRUE),
                              AccountMeta(authority, TRUE, FALSE) >>,
              data |-> Payload("Transfer", amount, authority)]]

\* system_instruction::transfer(from, to, lamports): an Instruction, never
\* an error.
system_transfer(from, to, lamports) ==
    [program_id |-> SystemProgramId,
     accounts |-> << AccountMeta(from, TRUE, TRUE),
                     AccountMeta(to, FALSE, TRUE) >>,
     data |-> Payload("Transfer", lamports, from)]

\* get_associated_token_address(wallet, mint): derived from the pair alone.
get_associated_token_address(wallet, mint) ==
    Block("ata", wallet.k, mint.k, EmptyString)

\* helper::instruction_to_response(instruction)
instruction_to_response(instruction) ==
    [program_id |-> Pubkey_to_string(instruction.program_id),
     accounts |-> [i \in 1..Len(instruction.accounts) |->
                     [pubkey |-> Pubkey_to_string(instruction.accounts[i].pubkey),
                      is_signer |-> instruction.accounts[i].is_signer,
                      is_writable |-> instruction.accounts[i].is_writable]],
     instruction_data |-> base64_encode(instruction.data)]

-----------------------------------------------------------------------------
(* create_token, mint_token, send_sol, send_token *)

create_token(req, built) ==
    IF ~some_non_empty(req.mintAuthority)
    THEN Bad(MissingFields, << Check("mintAuthority") >>)
    ELSE IF ~some_non_empty(req.mint)
    THEN Bad(MissingFields, << Check("mintAuthority"), Check("mint") >>)
    ELSE IF ~is_some(req.decimals)
    THEN Bad(MissingFields,
             << Check("mintAuthority"), Check("mint"), Check("decimals") >>)
    ELSE
    LET decimals == req.decimals[1]
        ma == parse_pubkey(req.mintAuthority[1])
        t1 == << Check("mintAuthority"), Check("mint"), Check("decimals"),
                Parse("mintAuthority") >>
    IN
    IF ~ma.ok THEN Bad(ma.err, t1)
    ELSE
    LET mk == parse_pubkey(req.mint[1])
        t2 == Append(t1, Parse("mint"))
    IN
    IF ~mk.ok THEN Bad(mk.err, t2)
    ELSE
    LET ix == initialize_mint(built, mk.val, ma.val, Some(ma.val), decimals)
        t3 == Append(t2, Call("initialize_mint"))
    IN
    IF ~ix.ok THEN Bad("Failed to create token instruction", t3)
    ELSE Good(instruction_to_response(ix.val), t3)

mint_token_missing_ignores_amount(mint, destination, authority, amount) ==
    is_none(mint) \/ is_none(destination) \/ is_none(authority)

\* handlers.rs 228
mint_token_missing(mint, destination, authority, amount) ==
    is_none(mint) \/ is_none(destination) \/ is_none(authority)
        \/ is_none(amount)

mint_token(req, built) ==
    LET mint == filter_non_empty(req.mint)
        destination == filter_non_empty(req.destination)
        authority == filter_non_empty(req.authority)
        amount == filter_positive(req.amount)
        t0 == << Check("fields") >>
    IN
    IF mint_token_missing(mint, destination, authority, amount)
    THEN Bad(MissingFields, t0)
    ELSE IF is_none(mint) THEN Panicked(Append(t0, Unwrap("mint")))
    ELSE
    LET mk == parse_pubkey(mint[1])
        t1 == Append(t0, Parse("mint"))
    IN
    IF ~mk.ok THEN Bad(mk.err, t1)
    ELSE IF is_none(destination) THEN Panicked(Append(t1, Unwrap("destination")))
    ELSE
    LET dk == parse_pubkey(destination[1])
        t2 == Append(t1, Parse("destination"))
    IN
    IF ~dk.ok THEN Bad(dk.err, t2)
    ELSE IF is_none(authority) THEN Panicked(Append(t2, Unwrap("authority")))
    ELSE
    LET ak == parse_pubkey(authority[1])
        t3 == Append(t2, Parse("authority"))
    IN
    IF ~ak.ok THEN Bad(ak.err, t3)
    ELSE IF is_none(amount) THEN Panicked(Append(t3, Unwrap("amount")))
    ELSE
    LET ix == mint_to(built, mk.val, dk.val, ak.val, amount[1])
        t4 == Append(t3, Call("mint_to"))
    IN
    IF ~ix.ok THEN Bad("Failed to create mint instruction", t4)
    ELSE Good(instruction_to_response(ix.val), t4)

\* handlers.rs 282
send_sol_missing(from, to, lamports) ==
    is_none(from) \/ is_none(to) \/ is_none(lamports)

send_sol(req) ==
    LET from == filter_non_empty(req.from)
        to == filter_non_empty(req.to)
        lamports == filter_positive(req.lamports)
        t0 == << Check("fields") >>
    IN
    IF send_sol_missing(from, to, lamports) THEN Bad(MissingFields, t0)
    ELSE IF is_none(from) THEN Panicked(Append(t0, Unwrap("from")))
    ELSE
    LET fk == parse_pubkey(from[1])
        t1 == Append(t0, Parse("from"))
    IN
    IF ~fk.ok THEN Bad(fk.err, t1)
    ELSE IF is_none(to) THEN Panicked(Append(t1, Unwrap("to")))
    ELSE
    LET tk == parse_pubkey(to[1])
        t2 == Append(t1, Parse("to"))
    IN
    IF ~tk.ok THEN Bad(tk.err, t2)
    ELSE IF is_none(lamports) THEN Panicked(Append(t2, Unwrap("lamports")))
    ELSE
    LET instruction == system_transfer(fk.val, tk.val, lamports[1]) IN
    Good([program_id |-> Pubkey_to_string(instruction.program_id),
          accounts |-> [i \in 1..Len(instruction.accounts) |->
                          Pubkey_to_string(instruction.accounts[i].pubkey)],
          instruction_data |-> base64_encode(instruction.data)],
         Append(t2, Call("system_transfer")))

send_token(req, built) ==
    IF ~some_non_empty(req.destination)
    THEN Bad(MissingFields, << Check("destination") >>)
    ELSE IF ~some_non_empty(req.mint)
    THEN Bad(MissingFields, << Check("destination"), Check("mint") >>)
    ELSE IF ~some_non_empty(req.owner)
    THEN Bad(MissingFields,
             << Check("destination"), Check("mint"), Check("owner") >>)
    ELSE IF ~some_positive(req.amount)
    THEN Bad(MissingFields,
             << Check("destination"), Check("mint"), Check("owner"),
                Check("amount") >>)
    ELSE
    LET amount == req.amount[1]
        mk == parse_pubkey(req.mint[1])
        t1 == << Check("destination"), Check("mint"), Check("owner"),
                Check("amount"), Parse("mint") >>
    IN
    IF ~mk.ok THEN Bad(mk.err, t1)
    ELSE
    LET wk == parse_pubkey(req.owner[1])
        t2 == Append(t1, Parse("owner"))
    IN
    IF ~wk.ok THEN Bad(wk.err, t2)
    ELSE
    LET dk == parse_pubkey(req.destination[1])
        t3 == Append(t2, Parse("destination"))
    IN
    IF ~dk.ok THEN Bad(dk.err, t3)
    ELSE
    LET source_ata == get_associated_token_address(wk.val, mk.val)
        dest_ata == get_associated_token_address(dk.val, mk.val)
        t4 == Append(t3, Call("get_associated_token_address"))
        ix == token_transfer(built, source_ata, dest_ata, wk.val, amount)
        t5 == Append(t4, Call("token_transfer"))
    IN
    IF ~ix.ok THEN Bad("Failed to create transfer instruction", t5)
    ELSE
    Good([program_id |-> Pubkey_to_string(ix.val.program_id),
          accounts |-> [i \in 1..Len(ix.val.accounts) |->
                          [pubkey |-> Pubkey_to_string(ix.val.accounts[i].pubkey),
                           isSigner |-> ix.val.accounts[i].is_signer]],
          instruction_data |-> base64_encode(ix.val.data)],
         t5)

-----------------------------------------------------------------------------
(* The Json<T> extractor: a body is handed to the handler only when every  *)
(* number in it fits the field's type (dtos.rs).  The string fields of the *)
(* bodies below are JSON strings or absent, which always fit.              *)

U8Max == 255

\* Option<u64>: absent, or a number that is not negative (the amounts of
\* the bodies below stay far under 2^64).
fits_u64(o) == is_none(o) \/ o[1] >= 0

\* Option<u8>
fits_u8(o) == is_none(o) \/ (o[1] >= 0 /\ o[1] <= U8Max)

Json_CreateTokenRequest(body) == fits_u8(body.decimals)

Json_MintTokenRequest(body) == fits_u64(body.amount)

Json_SendSolRequest(body) == fits_u64(body.lamports)

Json_SendTokenRequest(body) == fits_u64(body.amount)

-----------------------------------------------------------------------------
(* The bodies a client sends *)

Keys == 1..NumKeys

Messages == {Text("hello"), Text("hello ")}

SecretOf(i) == bs58_encode(Keypair_to_bytes(Keypair_new(i)))

AddressOf(i) == Pubkey_to_string(PubBlock(i))

\* A 64-byte buffer whose public half is not the key of its secret half.
MismatchedSecret == bs58_encode(<<SeedBlock(1), PubBlock(NumKeys)>>)

MessageOpts == {None, Some(EmptyString)} \cup {Some(m) : m \in Messages}

\* Absent, empty, not base58, 32 bytes instead of 64, a mismatched pair,
\* or a keypair.
SecretOpts ==
    {None, Some(EmptyString), Some(Text("not base58!")), Some(AddressOf(1)),
     Some(MismatchedSecret)}
        \cup {Some(SecretOf(i)) : i \in Keys}

\* Absent, empty, not base58, 64 bytes instead of 32, or an address.
AddressOpts ==
    {None, Some(EmptyString), Some(Text("not base58!")), Some(SecretOf(1))}
        \cup {Some(AddressOf(i)) : i \in Keys}

\* Absent, empty, not base64, 32 bytes instead of 64, 64 bytes that are no
\* signature, or the signature of a key over a message.
SignatureOpts ==
    {None, Some(EmptyString), Some(Text("not base64!")),
     Some(base64_encode(<<PubBlock(1) >>)),
     Some(base64_encode(Keypair_to_bytes(Keypair_new(1))))}
        \cup {Some(base64_encode(Keypair_sign_message(Keypair_new(i), m))) :
                 i \in Keys, m \in Messages}

AmountOpts == {None} \cup {Some(n) : n \in -1..MaxAmount}

DecimalsOpts == {None, Some(0), Some(1), Some(U8Max), Some(U8Max + 1)}

-----------------------------------------------------------------------------
(* The exchanges *)

NoClient == [keypair |-> None, signed |-> None]

Init ==
    /\ op = "idle"
    /\ request = None
    /\ status = 0
    /\ kind = "none"
    /\ response = EmptyString
    /\ steps = <<>>
    /\ client = NoClient

\* What the client got from earlier exchanges and may send again.
HeldSecret == {Some(client.keypair[i].secret) : i \in 1..Len(client.keypair)}

HeldPubkey == {Some(client.keypair[i].pubkey) : i \in 1..Len(client.keypair)}

HeldSignature ==
    {Some(client.signed[i].data.signature) : i \in 1..Len(client.signed)}

GenerateKeypair ==
    /\ op = "idle"
    /\ \E i \in Keys :
        LET r == generate_keypair(i) IN
        /\ op' = "generate_keypair"
        /\ request' = None
        /\ status' = r.status
        /\ kind' = r.kind
        /\ response' = r.body
        /\ steps' = r.steps
    /\ UNCHANGED client

SignMessage ==
    /\ op = "idle"
    /\ \E m \in MessageOpts, s \in SecretOpts \cup HeldSecret :
        LET body == [message |-> m, secret |-> s]
            r == sign_message(body)
        IN
        /\ op' = "sign_message"
        /\ request' = body
        /\ status' = r.status
        /\ kind' = r.kind
        /\ response' = r.body
        /\ steps' = r.steps
    /\ UNCHANGED client

VerifyMessage ==
    /\ op = "idle"
    /\ \E m \in MessageOpts, s \in SignatureOpts \cup HeldSignature,
          p \in AddressOpts \cup HeldPubkey :
        LET body == [message |-> m, signature |-> s, pubkey |-> p]
            r == verify_message(body)
        IN
        /\ op' = "verify_message"
        /\ request' = body
        /\ status' = r.status
        /\ kind' = r.kind
        /\ response' = r.body
        /\ steps' = r.steps
    /\ UNCHANGED client

CreateToken ==
    /\ op = "idle"
    /\ \E a \in AddressOpts, m \in AddressOpts, d \in DecimalsOpts,
          built \in BOOLEAN :
        LET body == [mintAuthority |-> a, mint |-> m, decimals |-> d]
            r == IF Json_CreateTokenRequest(body)
                 THEN create_token(body, built) ELSE Rejected
        IN
        /\ op' = "create_token"
        /\ request' = body
        /\ status' = r.status
        /\ kind' = r.kind
        /\ response' = r.body
        /\ steps' = r.steps
    /\ UNCHANGED client

MintToken ==
    /\ op = "idle"
    /\ \E m \in AddressOpts, d \in AddressOpts, a \in AddressOpts,
          n \in AmountOpts, built \in BOOLEAN :
        LET body == [mint |-> m, destination |-> d, authority |-> a,
                     amount |-> n]
            r == IF Json_MintTokenRequest(body)
                 THEN mint_token(body, built) ELSE Rejected
        IN
        /\ op' = "mint_token"
        /\ request' = body
        /\ status' = r.status
        /\ kind' = r.kind
        /\ response' = r.body
        /\ steps' = r.steps
    /\ UNCHANGED client

SendSol ==
    /\ op = "idle"
    /\ \E f \in AddressOpts, t \in AddressOpts, n \in AmountOpts :
        LET body == [from |-> f, to |-> t, lamports |-> n]
            r == IF Json_SendSolRequest(body) THEN send_sol(body) ELSE Rejected
        IN
        /\ op' = "send_sol"
        /\ request' = body
        /\ status' = r.status
        /\ kind' = r.kind
        /\ response' = r.body
        /\ steps' = r.steps
    /\ UNCHANGED client

SendToken ==
    /\ op = "idle"
    /\ \E d \in AddressOpts, m \in AddressOpts, o \in AddressOpts,
          n \in AmountOpts, built \in BOOLEAN :
        LET body == [destination |-> d, mint |-> m, owner |-> o,
                     amount |-> n]
            r == IF Json_SendTokenRequest(body)
                 THEN send_token(body, built) ELSE Rejected
        IN
        /\ op' = "send_token"
        /\ request' = body
        /\ status' = r.status
        /\ kind' = r.kind
        /\ response' = r.body
        /\ steps' = r.steps
    /\ UNCHANGED client

\* The client takes the answer: it keeps a generated keypair, and a
\* signature together with the secret it asked it for.
Deliver ==
    /\ op # "idle"
    /\ client' =
         IF op = "generate_keypair"
         THEN [client EXCEPT !.keypair = response.data]
         ELSE IF op = "sign_message" /\ kind = "json" /\ response.success
         THEN [client EXCEPT !.signed =
                  Some([secret |-> request.secret[1],
                        data |-> response.data[1]])]
         ELSE client
    /\ op' = "idle"
    /\ request' = None
    /\ status' = 0
    /\ kind' = "none"
    /\ response' = EmptyString
    /\ steps' = <<>>

Next ==
    \/ GenerateKeypair
    \/ SignMessage
    \/ VerifyMessage
    \/ CreateToken
    \/ MintToken
    \/ SendSol
    \/ SendToken
    \/ Deliver

Spec == Init /\ [][Next]_vars

-----------------------------------------------------------------------------
(* What the claims speak of, read off the body that was sent and the       *)
(* answer that came back.                                                  *)

Ran == {steps[i] : i \in 1..Len(steps)}

\* A string field that is absent or the empty string.
Missing(o) == Len(o) = 0 \/ (o[1].enc = "utf8" /\ o[1].text = "")

\* An amount that is absent or zero.
AbsentOrZero(o) == Len(o) = 0 \/ o[1] = 0

\* An amount that is supplied and greater than zero.
Positive(o) == Len(o) = 1 /\ o[1] > 0

\* A string field that is there and decodes as an address.
Decodes(o) == ~Missing(o) /\ parse_pubkey(o[1]).ok

\* A signature field that is there and decodes to a 64-byte signature.
DecodesAsSignature(o) ==
    /\ ~Missing(o)
    /\ base64_decode(o[1]).ok
    /\ Signature_try_from(base64_decode(o[1]).bytes).ok

TokenOps == {"create_token", "mint_token", "send_sol", "send_token"}

\* The address fields of each operation.
AddressFields ==
    [create_token |-> {"mintAuthority", "mint"},
     mint_token |-> {"mint", "destination", "authority"},
     send_sol |-> {"from", "to"},
     send_token |-> {"destination", "mint", "owner"}]

\* The amount field of each operation that has one.
AmountField ==
    [mint_token |-> "amount", send_sol |-> "lamports", send_token |-> "amount"]

\* Some required field of the body is absent, empty or, for an amount, zero.
RequiredFieldMissing ==
    CASE op = "sign_message" ->
           Missing(request.message) \/ Missing(request.secret)
      [] op = "verify_message" ->
           Missing(request.message) \/ Missing(request.signature)
               \/ Missing(request.pubkey)
      [] op = "create_token" ->
           (\E f \in AddressFields[op] : Missing(request[f]))
               \/ Len(request.decimals) = 0
      [] op \in {"mint_token", "send_sol", "send_token"} ->
           (\E f \in AddressFields[op] : Missing(request[f]))
               \/ AbsentOrZero(request[AmountField[op]])
      [] OTHER -> FALSE

\* The answer is the envelope of a failure with the given message.
FailsWith(message) ==
    /\ status = 400
    /\ kind = "json"
    /\ ~response.success
    /\ response.error = <<message>>

\* The answer is the envelope of a success.
Succeeds == status = 200 /\ kind = "json" /\ response.success

\* Every presence and positivity test of a token operation passes.
AllPresent ==
    /\ \A f \in AddressFields[op] : ~Missing(request[f])
    /\ IF op = "create_token" THEN Len(request.decimals) = 1
       ELSE Positive(request[AmountField[op]])

\* Every address of a token operation decodes.
AllDecode == \A f \in AddressFields[op] : Decodes(request[f])

\* The library calls that build or derive from validated input.
Builders ==
    {Call("initialize_mint"), Call("mint_to"), Call("system_transfer"),
     Call("get_associated_token_address"), Call("token_transfer")}

\* The step of a trace did not fail, judged from the body alone.
StepPassed(st) ==
    CASE st[1] = "check" ->
           IF st[2] = "fields" THEN AllPresent
           ELSE IF st[2] \in {"amount", "lamports"} THEN Positive(request[st[2]])
           ELSE IF st[2] = "decimals" THEN Len(request.decimals) = 1
           ELSE ~Missing(request[st[2]])
      [] st[1] = "parse_pubkey" -> Decodes(request[st[2]])
      [] OTHER -> TRUE

\* The signature is the one key i makes over the message, and the pubkey
\* is the address of key i.
Genuine(signature, pubkey, message) ==
    \E i \in Keys :
        /\ pubkey = AddressOf(i)
        /\ signature =
             base64_encode(Keypair_sign_message(Keypair_new(i), message))

-----------------------------------------------------------------------------
(* The claims *)

\* C1: in each of the six operations that take a body, a body with a
\* required field absent, empty or (amount, lamports) zero is answered 400
\* with success=false and 'Missing required fields', whatever the other
\* fields hold.
C1_MissingFieldAnswered400 ==
    RequiredFieldMissing => FailsWith("Missing required fields")

\* C2: an envelope has exactly one of data and error, as success says:
\* data and no error when success, error and no data when not.
C2_EnvelopeHasExactlyOne ==
    kind = "json" =>
        /\ response.success =>
               Len(response.data) = 1 /\ Len(response.error) = 0
        /\ ~response.success =>
               Len(response.error) = 1 /\ Len(response.data) = 0

C2_Witness ==
    /\ op = "send_token"
    /\ kind = "json"
    /\ ~response.success
    /\ Len(response.error) = 1
    /\ Len(response.data) = 0

\* C3: every answer to every request is the envelope, with status 200
\* exactly when success is true and status 400 when it is not.
C3_EveryAnswerEnveloped ==
    op # "idle" =>
        /\ kind = "json"
        /\ (status = 200) <=> response.success
        /\ ~response.success => status = 400

\* C4: verify-message checks the signature only once the pubkey and the
\* signature have both decoded, and a well-formed signature that is not
\* the pubkey's over the message is answered 200 with valid=false.
C4_InvalidSignatureIsNotAnError ==
    op = "verify_message" =>
        /\ Call("verify") \in Ran =>
               /\ ~Missing(request.message)
               /\ Decodes(request.pubkey)
               /\ DecodesAsSignature(request.signature)
        /\ ( /\ ~Missing(request.message)
             /\ Decodes(request.pubkey)
             /\ DecodesAsSignature(request.signature)
             /\ ~Genuine(request.signature[1], request.pubkey[1],
                         request.message[1]) )
           => Succeeds /\ response.data[1].valid = FALSE

C4_Witness ==
    /\ op = "verify_message"
    /\ request.message = <<Text("hello ")>>
    /\ request.pubkey = <<AddressOf(1)>>
    /\ request.signature =
         <<base64_encode(Keypair_sign_message(Keypair_new(1), Text("hello")))>>
    /\ Succeeds
    /\ response.data[1].valid = FALSE

\* C5: the secret of a generated keypair signs any non-empty message with
\* status 200 and echoes the generated pubkey, and verify-message answers
\* 200 with valid=true for that signature, message and pubkey.
C5_RoundTrip ==
    /\ ( /\ op = "sign_message"
         /\ Len(client.keypair) = 1
         /\ request.secret = <<client.keypair[1].secret>>
         /\ ~Missing(request.message) )
       => /\ Succeeds
          /\ response.data[1].public_key = client.keypair[1].pubkey
          /\ response.data[1].message = request.message[1]
    /\ ( /\ op = "verify_message"
         /\ Len(client.keypair) = 1
         /\ Len(client.signed) = 1
         /\ client.signed[1].secret = client.keypair[1].secret
         /\ request.signature = <<client.signed[1].data.signature>>
         /\ request.message = <<client.signed[1].data.message>>
         /\ request.pubkey = <<client.keypair[1].pubkey>> )
       => /\ Succeeds
          /\ response.data[1].valid = TRUE
          /\ client.signed[1].data.public_key = client.keypair[1].pubkey

C5_Witness ==
    /\ op = "verify_message"
    /\ Len(client.keypair) = 1
    /\ Len(client.signed) = 1
    /\ client.signed[1].secret = client.keypair[1].secret
    /\ request.signature = <<client.signed[1].data.signature>>
    /\ request.message = <<client.signed[1].data.message>>
    /\ request.pubkey = <<client.keypair[1].pubkey>>
    /\ Succeeds
    /\ response.data[1].valid = TRUE

\* C6: send-sol answers 200 whenever from and to decode and lamports is
\* greater than zero, and its only failures are the missing-fields error
\* and an address decode error.
C6_SendSolFailsOnlyTwoWays ==
    op = "send_sol" =>
        /\ (Decodes(request.from) /\ Decodes(request.to)
                /\ Positive(request.lamports)) => Succeeds
        /\ ~Succeeds =>
               \/ FailsWith("Missing required fields")
               \/ \E f \in {"from", "to"} :
                      /\ ~Missing(request[f])
                      /\ FailsWith(parse_pubkey(request[f][1]).err)

\* C7: create-token with decimals=0 and otherwise valid fields goes on to
\* decode and build, while amount=0 (mint-token, send-token) and
\* lamports=0 (send-sol) are answered with the missing-fields error, as an
\* absent amount is.
C7_ZeroDecimalsAcceptedZeroAmountMissing ==
    /\ ( /\ op = "create_token"
         /\ request.decimals = <<0>>
         /\ AllDecode )
       => /\ Call("initialize_mint") \in Ran
          /\ ~FailsWith("Missing required fields")
    /\ ( /\ op \in {"mint_token", "send_sol", "send_token"}
         /\ AbsentOrZero(request[AmountField[op]]) )
       => FailsWith("Missing required fields")

C7_Witness ==
    /\ op = "mint_token"
    /\ request.amount = <<0>>
    /\ AllDecode
    /\ FailsWith("Missing required fields")

\* C8: in the four token operations a builder or derivation runs only when
\* every presence and positivity test passed and every address decoded,
\* and a step that fails is the last step of its request.
C8_OnlyValidatedInputReachesBuilder ==
    op \in TokenOps =>
        /\ (Ran \cap Builders # {}) => AllPresent /\ AllDecode
        /\ \A i \in 1..(Len(steps) - 1) : StepPassed(steps[i])
        /\ (Len(steps) > 0 /\ ~StepPassed(steps[Len(steps)]))
               => status = 400 /\ kind = "json" /\ ~response.success

C8_Witness ==
    /\ op = "send_token"
    /\ AllPresent
    /\ Decodes(request.mint)
    /\ ~Decodes(request.owner)
    /\ ~Decodes(request.destination)
    /\ steps[Len(steps)] = Parse("owner")
    /\ status = 400

\* C9: no body makes mint-token or send-sol panic: an unwrap runs only on
\* a value that is there.
C9_NoUnwrapOfNone ==
    op \in {"mint_token", "send_sol"} =>
        /\ kind # "panic"
        /\ \A i \in 1..Len(steps) : steps[i][1] # "unwrap"

C9_Witness ==
    /\ op = "mint_token"
    /\ Len(request.amount) = 0
    /\ AllDecode
    /\ FailsWith("Missing required fields")

\* C10: verify-message with all three fields present decodes the pubkey,
\* then the base64 of the signature, then its length; the first failure
\* names the error.
C10_PubkeyDecodedBeforeSignature ==
    ( /\ op = "verify_message"
      /\ ~Missing(request.message)
      /\ ~Missing(request.signature)
      /\ ~Missing(request.pubkey) )
    => /\ ~Decodes(request.pubkey) =>
              /\ FailsWith(parse_pubkey(request.pubkey[1]).err)
              /\ ~FailsWith("Invalid base64 signature")
              /\ Step("base64_decode", "signature") \notin Ran
       /\ (Decodes(request.pubkey) /\ ~base64_decode(request.signature[1]).ok)
              => FailsWith("Invalid base64 signature")
       /\ FailsWith("Invalid signature format") <=>
              /\ Decodes(request.pubkey)
              /\ base64_decode(request.signature[1]).ok
              /\ ~DecodesAsSignature(request.signature)

C10_Witness ==
    /\ op = "verify_message"
    /\ ~Missing(request.message)
    /\ request.pubkey = <<Text("not base58!")>>
    /\ request.signature = <<Text("not base64!")>>
    /\ FailsWith(parse_pubkey(request.pubkey[1]).err)

====
